---- MODULE Spec2Model ----
(***************************************************************************)
(* SmartSalaryBot: the /chat request handler (main.py) and the             *)
(* conversation nodes it drives (graph.py).                                *)
(*                                                                         *)
(* Text is a sequence of pieces.  Text a user or the completion service    *)
(* supplies is a sequence of one-character strings, so that lower(),       *)
(* strip(), the substring test and the regular expressions act on          *)
(* characters.  The fixed parts of the f-string templates are single       *)
(* pieces; an f-string is the concatenation of its pieces.                 *)
(***************************************************************************)
EXTENDS Integers, Sequences, FiniteSets, TLC

(***************************************************************************)
(* Characters and the str methods the code uses                            *)
(***************************************************************************)
UpperChars == <<"A", "B", "C", "D", "E", "F", "G", "H", "I", "J", "K", "L", "M", "N", "O", "P", "Q", "R", "S", "T", "U", "V", "W", "X", "Y", "Z">>

LowerChars == <<"a", "b", "c", "d", "e", "f", "g", "h", "i", "j", "k", "l", "m", "n", "o", "p", "q", "r", "s", "t", "u", "v", "w", "x", "y", "z">>

DigitChars == <<"0", "1", "2", "3", "4", "5", "6", "7", "8", "9">>

Range(s) == { s[i] : i \in 1..Len(s) }

UpperSet == Range(UpperChars)

LetterSet == Range(UpperChars) \cup Range(LowerChars)

WordSet == LetterSet \cup Range(DigitChars) \cup {"_"}

SpaceSet == {" ", "\t", "\n", "\r", "\f"}

\* [a-zA-Z]
IsLetter(c) == c \in LetterSet

\* \w
IsWordChar(c) == c \in WordSet

\* \s, and the characters str.strip() removes
IsSpace(c) == c \in SpaceSet

ToLower ==
    [c \in UpperSet |-> LowerChars[CHOOSE i \in 1..Len(UpperChars) : UpperChars[i] = c]]

LowerChar(c) == IF c \in UpperSet THEN ToLower[c] ELSE c

\* str.lower()
Lower(s) == [i \in 1..Len(s) |-> LowerChar(s[i])]

RECURSIVE LStrip(_)
LStrip(s) == IF s # <<>> /\ IsSpace(Head(s)) THEN LStrip(Tail(s)) ELSE s

RECURSIVE RStrip(_)
RStrip(s) ==
    IF s # <<>> /\ IsSpace(s[Len(s)]) THEN RStrip(SubSeq(s, 1, Len(s) - 1)) ELSE s

\* str.strip()
Strip(s) == RStrip(LStrip(s))

\* text[:n]
Take(s, n) == SubSeq(s, 1, IF Len(s) < n THEN Len(s) ELSE n)

\* `pat in s`
Contains(s, pat) ==
    \E i \in 0..(Len(s) - Len(pat)) : SubSeq(s, i + 1, i + Len(pat)) = pat

(***************************************************************************)
(* main.py: extract_name_from_text                                         *)
(***************************************************************************)
PrefixMyNameIs == <<"m", "y", " ", "n", "a", "m", "e", " ", "i", "s">>

PrefixIm == <<"i", "'", "m">>

PrefixIAm == <<"i", " ", "a", "m">>

PrefixCallMe == <<"c", "a", "l", "l", " ", "m", "e">>

PrefixName == <<"n", "a", "m", "e", ":">>

PrefixIts == <<"i", "t", "'", "s">>

\* the six patterns in the order tried: the literal prefix (matched ignoring
\* case) and the least number of \s between it and the captured group
patterns ==
    << [prefix |-> PrefixMyNameIs, minSpace |-> 1],
       [prefix |-> PrefixIm,       minSpace |-> 1],
       [prefix |-> PrefixIAm,      minSpace |-> 1],
       [prefix |-> PrefixCallMe,   minSpace |-> 1],
       [prefix |-> PrefixName,     minSpace |-> 0],
       [prefix |-> PrefixIts,      minSpace |-> 1] >>

\* first index >= i of s that is not \s (Len(s) + 1 when there is none)
RECURSIVE SkipSpace(_, _)
SkipSpace(s, i) == IF i <= Len(s) /\ IsSpace(s[i]) THEN SkipSpace(s, i + 1) ELSE i

\* first index >= i of s that is not a letter
RECURSIVE SkipLetters(_, _)
SkipLetters(s, i) ==
    IF i <= Len(s) /\ IsLetter(s[i]) THEN SkipLetters(s, i + 1) ELSE i

\* ([a-zA-Z]+(?:\s+[a-zA-Z]+)*) from a letter at i: the index after the group
RECURSIVE GroupEnd(_, _)
GroupEnd(s, i) ==
    LET e == SkipLetters(s, i)
        n == SkipSpace(s, e)
    IN  IF n > e /\ n <= Len(s) /\ IsLetter(s[n]) THEN GroupEnd(s, n) ELSE e

\* the pattern matches with its prefix starting at index p of s
MatchesAt(s, pat, p) ==
    LET q == p + Len(pat.prefix)
        g == SkipSpace(s, q)
    IN  /\ q - 1 <= Len(s)
        /\ Lower(SubSeq(s, p, q - 1)) = pat.prefix
        /\ g - q >= pat.minSpace
        /\ g <= Len(s)
        /\ IsLetter(s[g])

\* re.search(pattern, text, re.IGNORECASE) is not None
Matches(s, pat) == \E p \in 1..Len(s) : MatchesAt(s, pat, p)

\* match.group(1) of the leftmost match
Group1(s, pat) ==
    LET p == CHOOSE p \in 1..Len(s) :
                 /\ MatchesAt(s, pat, p)
                 /\ \A r \in 1..(p - 1) : ~MatchesAt(s, pat, r)
        g == SkipSpace(s, p + Len(pat.prefix))
    IN  SubSeq(s, g, GroupEnd(s, g) - 1)

StopWords ==
    { <<"t", "h", "e">>,
      <<"a">>,
      <<"a", "n">>,
      <<"i", "s">>,
      <<"a", "m">>,
      <<"a", "r", "e">>,
      <<"m", "y">>,
      <<"m", "e">>,
      <<"c", "a", "l", "l">>,
      <<"n", "a", "m", "e">> }

\* first index >= i of s that is not \w
RECURSIVE SkipWord(_, _)
SkipWord(s, i) ==
    IF i <= Len(s) /\ IsWordChar(s[i]) THEN SkipWord(s, i + 1) ELSE i

\* re.sub(r'\b(the|a|an|is|am|are|my|me|call|name)\b', '', s, IGNORECASE),
\* from index i, which is not inside a word
RECURSIVE RemoveStopWords(_, _)
RemoveStopWords(s, i) ==
    IF i > Len(s) THEN <<>>
    ELSE IF IsWordChar(s[i])
         THEN LET e == SkipWord(s, i)
                  w == SubSeq(s, i, e - 1)
              IN  (IF Lower(w) \in StopWords THEN <<>> ELSE w)
                      \o RemoveStopWords(s, e)
         ELSE <<s[i]>> \o RemoveStopWords(s, i + 1)

\* re.sub(r'[^\w\s]', '', s)
RemovePunctuation(s) == SelectSeq(s, LAMBDA c : IsWordChar(c) \/ IsSpace(c))

\* re.sub(r'\s+', ' ', s)
RECURSIVE CollapseSpaces(_, _)
CollapseSpaces(s, i) ==
    IF i > Len(s) THEN <<>>
    ELSE IF IsSpace(s[i]) THEN <<" ">> \o CollapseSpaces(s, SkipSpace(s, i))
         ELSE <<s[i]>> \o CollapseSpaces(s, i + 1)

NameMaxLen == 50

\* lines 36-44: no pattern matched
CleanedName(text) ==
    LET cleaned ==
            Strip(CollapseSpaces(RemovePunctuation(RemoveStopWords(text, 1)), 1))
    IN  IF cleaned = <<>> \/ Len(cleaned) > NameMaxLen
        THEN Strip(Take(text, NameMaxLen))
        ELSE cleaned

RECURSIVE FirstMatch(_, _)
FirstMatch(text, k) ==
    IF k > Len(patterns) THEN CleanedName(text)
    ELSE IF Matches(text, patterns[k]) THEN Strip(Group1(text, patterns[k]))
         ELSE FirstMatch(text, k + 1)

extract_name_from_text(raw) == FirstMatch(Strip(raw), 1)

(***************************************************************************)
(* graph.py: State, a dict.  keys is the set of keys the dict holds; a     *)
(* field whose key is absent keeps the value it has in EmptyState.         *)
(***************************************************************************)
\* a float: model.salary is Optional[float], and nan is a float
Num(n) == [nan |-> FALSE, val |-> n]

NaN == [nan |-> TRUE, val |-> 0]

\* State(): the empty dict
EmptyState ==
    [ keys                 |-> {},
      step                 |-> "",
      name                 |-> <<>>,
      salary               |-> Num(0),
      messages             |-> <<>>,
      conversation_history |-> <<>>,
      initial_advice       |-> <<>>,
      followup_question    |-> <<>> ]

\* state[k] = v
SetItem(state, k, v) == [state EXCEPT !.keys = @ \cup {k}, ![k] = v]

\* state.setdefault(k, v)
SetDefault(state, k, v) == IF k \in state.keys THEN state ELSE SetItem(state, k, v)

\* state[k].append(entry)
AppendTo(state, k, entry) == [state EXCEPT ![k] = Append(@, entry)]

Msg(role, content) == [role |-> role, content |-> content]

\* f"{x}" of a float
FloatStr(x) == IF x.nan THEN <<"nan">> ELSE <<ToString(x.val) \o ".0">>

\* what a node returns or raises: the dict is mutated in place, so the
\* caller's object is `state` also when the node raised (a KeyError)
Returned(state, prompts) == [state |-> state, prompts |-> prompts, raised |-> FALSE]

Raised(state, prompts) == [state |-> state, prompts |-> prompts, raised |-> TRUE]

(***************************************************************************)
(* graph.py: ask_gemini.  llm is what model.invoke does with the prompt:   *)
(* it raises, or returns a response with this content.                     *)
(***************************************************************************)
FallbackAdvice ==
    << "I apologize, but I'm having trouble generating personalized advice right now. Here's some general financial guidance: Consider creating a budget, building an emergency fund with 3-6 months of expenses, and investing in your retirement. Please try again later for personalized advice." >>

\* mutant: the failure is swallowed, but nothing is put in its place
ask_gemini_empty_on_failure(prompt, llm) == IF llm.raises THEN <<>> ELSE Strip(llm.content)

ask_gemini(prompt, llm) == IF llm.raises THEN FallbackAdvice ELSE Strip(llm.content)

(***************************************************************************)
(* graph.py: the conversation nodes                                        *)
(***************************************************************************)
Greeting == << "Hi! What is your name?" >>

ask_name(state) ==
    LET s1 == SetItem(state, "step", "ask_name")
        s2 == SetDefault(s1, "messages", <<>>)
    IN  Returned(AppendTo(s2, "messages", Msg("assistant", Greeting)), <<>>)

SalaryRequest(name) ==
    << "Namaste " >> \o name
        \o << "! I'm your friendly Indian financial advisor, here to guide you with smart budgeting, savings, investments, and insurance tips. To get started, could you please share your monthly salary?" >>

\* mutant: the step written is "followup"
ask_salary_skips_salary(state) ==
    LET s1 == SetItem(state, "step", "followup")
        s2 == SetDefault(s1, "messages", <<>>)
    IN  IF "name" \notin s2.keys THEN Raised(s2, <<>>)
        ELSE Returned(AppendTo(s2, "messages",
                               Msg("assistant", SalaryRequest(s2.name))), <<>>)

\* mutant: the message list is assigned, not appended to
ask_salary_resets_messages(state) ==
    LET s1 == SetItem(state, "step", "ask_salary")
    IN  IF "name" \notin s1.keys THEN Raised(s1, <<>>)
        ELSE Returned(SetItem(s1, "messages", << Msg("assistant", SalaryRequest(s1.name)) >>),
                      <<>>)

ask_salary(state) ==
    LET s1 == SetItem(state, "step", "ask_salary")
        s2 == SetDefault(s1, "messages", <<>>)
    IN  IF "name" \notin s2.keys THEN Raised(s2, <<>>)
        ELSE Returned(AppendTo(s2, "messages",
                               Msg("assistant", SalaryRequest(s2.name))), <<>>)

\* lines 65-78
AdvicePrompt(name, salary) ==
    << "You are a friendly and knowledgeable Indian financial advisor. The user's name is " >>
        \o name \o << " and their monthly salary is Rs" >> \o FloatStr(salary)
        \o << ". Analyze their salary and create a personalized, detailed money management plan. [...] End by asking if they have any other questions." >>

\* line 88
AdviceSummary(name, salary, advice) ==
    << "Initial advice given for " >> \o name \o << " (salary: $" >>
        \o FloatStr(salary) \o << "): " >> \o advice

\* lines 61-91: give_advice up to the last message appended
AdviceGiven(state, llm) ==
    LET s1 == SetItem(state, "step", "advice")
        s2 == SetDefault(s1, "messages", <<>>)
        s3 == SetDefault(s2, "conversation_history", <<>>)
        advice == ask_gemini(AdvicePrompt(s3.name, s3.salary), llm)
        s4 == SetItem(s3, "initial_advice", advice)
        s5 == AppendTo(s4, "conversation_history",
                       Msg("system", AdviceSummary(s4.name, s4.salary, advice)))
    IN  IF {"name", "salary"} \subseteq s3.keys
        THEN Returned(AppendTo(s5, "messages", Msg("assistant", advice)),
                      << AdvicePrompt(s3.name, s3.salary) >>)
        ELSE Raised(s3, <<>>)

\* mutant: line 94 is missing
give_advice_stays_in_advice(state, llm) == AdviceGiven(state, llm)

give_advice(state, llm) ==
    LET r == AdviceGiven(state, llm)
    IN  IF r.raised THEN r ELSE Returned(SetItem(r.state, "step", "followup"), r.prompts)

end_phrases ==
    << <<"t", "h", "a", "n", "k", "s">>,
       <<"t", "h", "a", "n", "k", " ", "y", "o", "u">>,
       <<"b", "y", "e">>,
       <<"g", "o", "o", "d", "b", "y", "e">>,
       <<"t", "h", "a", "t", "'", "s", " ", "a", "l", "l">>,
       <<"n", "o", " ", "m", "o", "r", "e", " ", "q", "u", "e", "s", "t", "i", "o", "n", "s">>,
       <<"t", "h", "a", "t", "'", "s", " ", "e", "n", "o", "u", "g", "h">>,
       <<"d", "o", "n", "e">>,
       <<"f", "i", "n", "i", "s", "h">>,
       <<"e", "n", "d">>,
       <<"e", "x", "i", "t">>,
       <<"q", "u", "i", "t">> >>

\* mutant: the question is not lowered before the test
WantsToEnd_case_sensitive(user_question) ==
    \E k \in 1..Len(end_phrases) : Contains(user_question, end_phrases[k])

\* line 111: any(phrase in user_question.lower() for phrase in end_phrases)
WantsToEnd(user_question) ==
    LET lowered == Lower(user_question)
    IN  \E k \in 1..Len(end_phrases) : Contains(lowered, end_phrases[k])

Farewell(name) ==
    << "You're welcome, " >> \o name
        \o << "! I'm glad I could help with your financial planning. Best of luck with your financial goals!" >>

HistoryWindow == 3

\* mutant: the slice is [:3], the first entries
LastEntries_first(history) ==
    SubSeq(history, 1, IF Len(history) > 3 THEN 3 ELSE Len(history))

\* state['conversation_history'][-3:]
LastEntries(history) ==
    SubSeq(history,
           IF Len(history) > HistoryWindow THEN Len(history) - HistoryWindow + 1 ELSE 1,
           Len(history))

\* "\n".join([f"- {item['content']}" for item in items])
RECURSIVE BulletLines(_)
BulletLines(items) ==
    IF items = <<>> THEN <<>>
    ELSE IF Len(items) = 1 THEN << "- " >> \o items[1].content
         ELSE << "- " >> \o items[1].content \o << "\n" >> \o BulletLines(Tail(items))

\* lines 123-132: the prompt around the lines of previous_context
ContextWith(state, previous_context, user_question) ==
    << "You are a friendly and knowledgeable Indian financial advisor. Here's the context:\n- User's name: " >>
        \o state.name \o << "\n- Monthly salary: " >> \o FloatStr(state.salary)
        \o << " INR\n- Initial advice given: " >>
        \o (IF "initial_advice" \in state.keys THEN state.initial_advice ELSE << "N/A" >>)
        \o << "\n\nPrevious conversation:\n" >>
        \o previous_context
        \o << "\n\nThe user is asking a follow-up question: \"" >> \o user_question
        \o << "\"\n\nProvide a helpful, detailed answer that builds on the previous advice. [...] End by asking if they have any other questions." >>

\* lines 121-132
FollowupContext(state, user_question) ==
    ContextWith(state, BulletLines(LastEntries(state.conversation_history)), user_question)

\* mutant: the question is left out of the history
AnswerFollowup_skips_question(state, user_question, followup_response) ==
    LET s5 == AppendTo(state, "conversation_history",
                       Msg("assistant", << "Follow-up response: " >> \o followup_response))
    IN  AppendTo(s5, "messages", Msg("assistant", followup_response))

\* lines 137-147
AnswerFollowup(state, user_question, followup_response) ==
    LET s4 == AppendTo(state, "conversation_history",
                       Msg("user", << "Follow-up question: " >> \o user_question))
        s5 == AppendTo(s4, "conversation_history",
                       Msg("assistant", << "Follow-up response: " >> \o followup_response))
    IN  AppendTo(s5, "messages", Msg("assistant", followup_response))

handle_followup(state, llm) ==
    LET s1 == SetItem(state, "step", "followup")
        s2 == SetDefault(s1, "messages", <<>>)
        s3 == SetDefault(s2, "conversation_history", <<>>)
        user_question ==
            IF "followup_question" \in s3.keys THEN s3.followup_question ELSE <<>>
        e1 == SetItem(s3, "step", "conversation_ended")
        context == FollowupContext(s3, user_question)
    IN  IF WantsToEnd(user_question)
        THEN IF "name" \in e1.keys
             THEN Returned(AppendTo(e1, "messages",
                                    Msg("assistant", Farewell(e1.name))), <<>>)
             ELSE Raised(e1, <<>>)
        ELSE IF {"name", "salary"} \subseteq s3.keys
             THEN Returned(AnswerFollowup(s3, user_question, ask_gemini(context, llm)),
                           <<context>>)
             ELSE Raised(s3, <<>>)

(***************************************************************************)
(* main.py: the conversation store and the /chat handler                   *)
(***************************************************************************)
\* Optional[T]: None is <<>>, a value v is <<v>>
None == <<>>

IsNone(opt) == opt = <<>>

\* mutant: every conversation holds the one state object
Put_shared(store, conversation_id, state) ==
    [k \in DOMAIN store \cup {conversation_id} |-> state]

\* conversation_states[conversation_id] = state
Put(store, conversation_id, state) ==
    [k \in DOMAIN store \cup {conversation_id} |->
        IF k = conversation_id THEN state ELSE store[k]]

\* mutant: nothing is removed
Pop_keeps(store, conversation_id) == store

\* conversation_states.pop(conversation_id, None)
Pop(store, conversation_id) == [k \in DOMAIN store \ {conversation_id} |-> store[k]]

\* state.get("messages", [])
GetMessages(state) == IF "messages" \in state.keys THEN state.messages ELSE <<>>

\* state.get("step"); a missing key reads as ""
GetStep(state) == IF "step" \in state.keys THEN state.step ELSE ""

\* the JSON body of a 200 response
Reply(messages, step, conversation_id, ended) ==
    [ status             |-> 200,
      messages           |-> messages,
      step               |-> step,
      conversation_id    |-> conversation_id,
      conversation_ended |-> ended,
      detail             |-> "" ]

\* raise HTTPException(status_code, detail)
HttpError(status_code, detail) ==
    [ status             |-> status_code,
      messages           |-> <<>>,
      step               |-> "",
      conversation_id    |-> "",
      conversation_ended |-> FALSE,
      detail             |-> detail ]

\* what one request does: the store and the response after it, and the
\* prompts it sent to the completion service
Outcome(store, response, prompts) ==
    [store |-> store, response |-> response, prompts |-> prompts]

\* mutant: line 72 is missing
StartConversation_not_stored(store, conversation_id) ==
    LET r == ask_name(EmptyState)
    IN  Outcome(store,
                Reply(GetMessages(r.state), GetStep(r.state), conversation_id, FALSE),
                r.prompts)

\* lines 67-79
StartConversation(store, conversation_id) ==
    LET r == ask_name(EmptyState)
    IN  IF r.raised
        THEN Outcome(store, HttpError(500, "Error starting conversation"), r.prompts)
        ELSE Outcome(Put(store, conversation_id, r.state),
                     Reply(GetMessages(r.state), GetStep(r.state), conversation_id, FALSE),
                     r.prompts)

\* mutant: a salary sent without a name is stored
StepAskName_stores_salary(store, conversation_id, state, user_input) ==
    IF IsNone(user_input.name)
    THEN Outcome(IF IsNone(user_input.salary) THEN store
                 ELSE Put(store, conversation_id,
                          SetItem(state, "salary", user_input.salary[1])),
                 Reply(GetMessages(state), GetStep(state), conversation_id, FALSE), <<>>)
    ELSE LET extracted_name == extract_name_from_text(user_input.name[1])
             r == ask_salary(SetItem(state, "name", extracted_name))
         IN  IF r.raised
             THEN Outcome(Put(store, conversation_id, r.state),
                          HttpError(500, "Error processing name"), r.prompts)
             ELSE Outcome(Put(store, conversation_id, r.state),
                          Reply(GetMessages(r.state), GetStep(r.state), conversation_id, FALSE),
                          r.prompts)

\* lines 83-104
StepAskName(store, conversation_id, state, user_input) ==
    IF IsNone(user_input.name)
    THEN Outcome(store, Reply(GetMessages(state), GetStep(state), conversation_id, FALSE), <<>>)
    ELSE LET extracted_name == extract_name_from_text(user_input.name[1])
             r == ask_salary(SetItem(state, "name", extracted_name))
         IN  IF r.raised
             THEN Outcome(Put(store, conversation_id, r.state),
                          HttpError(500, "Error processing name"), r.prompts)
             ELSE Outcome(Put(store, conversation_id, r.state),
                          Reply(GetMessages(r.state), GetStep(r.state), conversation_id, FALSE),
                          r.prompts)

\* line 116: user_input.salary <= 0 (isinstance holds of every float)
SalaryRejected(salary) == ~salary.nan /\ salary.val <= 0

\* mutant: the salary is stored before it is validated
StepAskSalary_stores_first(store, conversation_id, state, user_input, llm) ==
    IF IsNone(user_input.salary)
    THEN Outcome(store, Reply(GetMessages(state), GetStep(state), conversation_id, FALSE), <<>>)
    ELSE IF SalaryRejected(user_input.salary[1])
         THEN Outcome(Put(store, conversation_id,
                          SetItem(state, "salary", user_input.salary[1])),
                      HttpError(400, "Please provide a valid positive salary amount"), <<>>)
         ELSE LET r == give_advice(SetItem(state, "salary", user_input.salary[1]), llm)
              IN  IF r.raised
                  THEN Outcome(Put(store, conversation_id, r.state),
                               HttpError(500, "Error generating advice"), r.prompts)
                  ELSE Outcome(Put(store, conversation_id, r.state),
                               Reply(GetMessages(r.state), GetStep(r.state), conversation_id, FALSE),
                               r.prompts)

\* lines 106-130
StepAskSalary(store, conversation_id, state, user_input, llm) ==
    IF IsNone(user_input.salary)
    THEN Outcome(store, Reply(GetMessages(state), GetStep(state), conversation_id, FALSE), <<>>)
    ELSE IF SalaryRejected(user_input.salary[1])
         THEN Outcome(store, HttpError(400, "Please provide a valid positive salary amount"), <<>>)
         ELSE LET r == give_advice(SetItem(state, "salary", user_input.salary[1]), llm)
              IN  IF r.raised
                  THEN Outcome(Put(store, conversation_id, r.state),
                               HttpError(500, "Error generating advice"), r.prompts)
                  ELSE Outcome(Put(store, conversation_id, r.state),
                               Reply(GetMessages(r.state), GetStep(r.state), conversation_id, FALSE),
                               r.prompts)

\* mutant: line 156 is missing
FollowupOutcome_keeps_ended(store, conversation_id, r) ==
    IF r.raised
    THEN Outcome(Put(store, conversation_id, r.state),
                 HttpError(500, "Error handling follow-up"), r.prompts)
    ELSE IF GetStep(r.state) = "conversation_ended"
         THEN Outcome(Put(store, conversation_id, r.state),
                      Reply(GetMessages(r.state), "conversation_ended", conversation_id, TRUE),
                      r.prompts)
         ELSE Outcome(Put(store, conversation_id, r.state),
                      Reply(GetMessages(r.state), GetStep(r.state), conversation_id, FALSE),
                      r.prompts)

\* lines 145-165: r is what handle_followup returned or raised
FollowupOutcome(store, conversation_id, r) ==
    IF r.raised
    THEN Outcome(Put(store, conversation_id, r.state),
                 HttpError(500, "Error handling follow-up"), r.prompts)
    ELSE IF GetStep(r.state) = "conversation_ended"
         THEN Outcome(Pop(Put(store, conversation_id, r.state), conversation_id),
                      Reply(GetMessages(r.state), "conversation_ended", conversation_id, TRUE),
                      r.prompts)
         ELSE Outcome(Put(store, conversation_id, r.state),
                      Reply(GetMessages(r.state), GetStep(r.state), conversation_id, FALSE),
                      r.prompts)

\* mutant: a name sent with a follow-up question is stored as well
StepFollowup_overwrites_name(store, conversation_id, state, user_input, llm) ==
    IF IsNone(user_input.followup_question)
    THEN Outcome(store, Reply(GetMessages(state), GetStep(state), conversation_id, FALSE), <<>>)
    ELSE LET named ==
                 IF IsNone(user_input.name) THEN state
                 ELSE SetItem(state, "name", extract_name_from_text(user_input.name[1]))
         IN  FollowupOutcome(store, conversation_id,
                 handle_followup(
                     SetItem(named, "followup_question", user_input.followup_question[1]),
                     llm))

\* mutant: a question the state already holds is not replaced
StepFollowup_keeps_first_question(store, conversation_id, state, user_input, llm) ==
    IF IsNone(user_input.followup_question)
    THEN Outcome(store, Reply(GetMessages(state), GetStep(state), conversation_id, FALSE), <<>>)
    ELSE FollowupOutcome(store, conversation_id,
             handle_followup(
                 SetDefault(state, "followup_question", user_input.followup_question[1]), llm))

\* lines 132-165
StepFollowup(store, conversation_id, state, user_input, llm) ==
    IF IsNone(user_input.followup_question)
    THEN Outcome(store, Reply(GetMessages(state), GetStep(state), conversation_id, FALSE), <<>>)
    ELSE FollowupOutcome(store, conversation_id,
             handle_followup(
                 SetItem(state, "followup_question", user_input.followup_question[1]), llm))

\* lines 167-177
StepEnded(store, conversation_id, state) ==
    Outcome(Pop(store, conversation_id),
            Reply(GetMessages(state), "conversation_ended", conversation_id, TRUE), <<>>)

\* mutant: the state is put back at "ask_name" instead of being discarded
StepInvalid_repairs(store, conversation_id) ==
    Outcome(Put(store, conversation_id, SetItem(store[conversation_id], "step", "ask_name")),
            HttpError(400, "Invalid conversation state. Please start a new conversation."), <<>>)

\* lines 179-182
StepInvalid(store, conversation_id) ==
    Outcome(Pop(store, conversation_id),
            HttpError(400, "Invalid conversation state. Please start a new conversation."), <<>>)

\* line 62: not conversation_id
NeedsUuid(user_input) ==
    IsNone(user_input.conversation_id) \/ user_input.conversation_id[1] = ""

\* the handler; uuid is the value of str(uuid.uuid4())
chat(store, user_input, llm, uuid) ==
    LET conversation_id ==
            IF NeedsUuid(user_input) THEN uuid
            ELSE user_input.conversation_id[1]
        state ==
            IF conversation_id \in DOMAIN store THEN store[conversation_id] ELSE EmptyState
        step == GetStep(state)
    IN  IF state.keys = {} THEN StartConversation(store, conversation_id)
        ELSE CASE step = "ask_name" -> StepAskName(store, conversation_id, state, user_input)
               [] step = "ask_salary" -> StepAskSalary(store, conversation_id, state, user_input, llm)
               [] step = "followup" -> StepFollowup(store, conversation_id, state, user_input, llm)
               [] step = "conversation_ended" -> StepEnded(store, conversation_id, state)
               [] OTHER -> StepInvalid(store, conversation_id)

(***************************************************************************)
(* The requests and completion results explored                            *)
(***************************************************************************)
ConvIds == {"c1", "c2"}

TextBlank == <<" ", " ">>

TextMyNameIsAsha == <<"M", "y", " ", "n", "a", "m", "e", " ", "i", "s", " ", "A", "s", "h", "a">>

TextAsha == <<"A", "s", "h", "a">>

QThanks == <<"t", "h", "a", "n", "k", "s", " ", "a", " ", "l", "o", "t", "!">>

QTax == <<"w", "h", "a", "t", " ", "a", "b", "o", "u", "t", " ", "t", "a", "x", " ", "s", "a", "v", "i", "n", "g", "?">>

QSpend == <<"H", "o", "w", " ", "t", "o", " ", "s", "p", "E", "N", "d", " ", "l", "e", "s", "s", "?">>

QEmpty == <<>>

ReplyOk == <<" ", "o", "k", " ">>

Asha == <<"A", "s", "h", "a">>

ConversationIdInputs == {None, <<"">>} \cup { <<c>> : c \in ConvIds }

NameInputs == {None, <<TextBlank>>, <<TextMyNameIsAsha>>, <<TextAsha>>}

SalaryInputs == {None, <<Num(0)>>, <<Num(-1)>>, <<Num(50000)>>, <<NaN>>}

QuestionInputs == {None, <<QThanks>>, <<QSpend>>, <<QTax>>}

\* requests that carry more than the field their step reads
MixedInputs ==
    { <<TextAsha, Num(50000), QTax>>, <<TextBlank, Num(0), QThanks>> }

\* the bodies of the requests: every choice of conversation_id with at most
\* one of name, salary and followup_question, or with all three
UserInputs ==
    { body : body \in
        { u \in [ name              : NameInputs,
                  salary            : SalaryInputs,
                  conversation_id   : ConversationIdInputs,
                  followup_question : QuestionInputs ] :
            \/ Cardinality({f \in {"name", "salary", "followup_question"} : ~IsNone(u[f])}) <= 1
            \/ \E m \in MixedInputs :
                  u.name = <<m[1]>> /\ u.salary = <<m[2]>> /\ u.followup_question = <<m[3]>> } }

Completions ==
    { [raises |-> TRUE, content |-> <<>>], [raises |-> FALSE, content |-> ReplyOk] }

\* the most follow-up answers held by the stored conversations together
MaxFollowups == 2

\* the most follow-up calls made on the state object of CoreSpec
MaxCoreFollowups == 3

\* follow-up answers recorded in a state: two history entries each, after
\* the entry for the initial advice
Answered(state) ==
    IF Len(state.conversation_history) = 0 THEN 0
    ELSE (Len(state.conversation_history) - 1) \div 2

RECURSIVE TotalAnswered(_, _)
TotalAnswered(store, ids) ==
    IF ids = {} THEN 0
    ELSE LET id == CHOOSE id \in ids : TRUE
         IN  Answered(store[id]) + TotalAnswered(store, ids \ {id})

(***************************************************************************)
(* The handler on the conversation store                                   *)
(***************************************************************************)
VARIABLES store, response, prompts, core, calls

vars == <<store, response, prompts, core, calls>>

\* conversation_states = {}; no request answered yet
Init ==
    /\ store = << >>
    /\ response = HttpError(0, "")
    /\ prompts = <<>>
    /\ core = EmptyState
    /\ calls = 0

\* the values str(uuid.uuid4()) can take: an identifier no conversation
\* uses; it is not drawn when the request names its conversation
UuidChoices(user_input) == IF NeedsUuid(user_input) THEN ConvIds \ DOMAIN store ELSE {""}

\* one POST /chat, the stored conversations holding at most cap answers
ChatWithin(cap) ==
    \E user_input \in UserInputs, llm \in Completions :
        \E uuid \in UuidChoices(user_input) :
            \E out \in {chat(store, user_input, llm, uuid)} :
                /\ TotalAnswered(out.store, DOMAIN out.store) <= cap
                /\ store' = out.store
                /\ response' = out.response
                /\ prompts' = out.prompts
                /\ UNCHANGED <<core, calls>>

\* one POST /chat
Chat == ChatWithin(MaxFollowups)

Next == Chat

Spec == Init /\ [][Next]_vars

(***************************************************************************)
(* graph.py on its own: one state object taken through the nodes along     *)
(* the edges of build_graph (ask_name, ask_salary, advice, followup, and   *)
(* followup again without end), the caller storing each node's input in    *)
(* the state first, as chat does.  core is the state object, prompts the   *)
(* prompts of the last call, calls the number of follow-up calls made.     *)
(***************************************************************************)
\* the inputs a caller meeting the nodes' preconditions supplies
CoreNames == {Asha}

CoreSalaries == {Num(50000)}

CoreQuestions == {QThanks, QSpend, QTax, QEmpty}

\* graph.set_entry_point("ask_name")
CoreAskName ==
    /\ core.keys = {}
    /\ core' = ask_name(core).state
    /\ prompts' = <<>>
    /\ UNCHANGED <<store, response, calls>>

\* graph.add_edge("ask_name", "ask_salary")
CoreAskSalary ==
    /\ GetStep(core) = "ask_name"
    /\ \E name \in CoreNames :
         core' = ask_salary(SetItem(core, "name", name)).state
    /\ prompts' = <<>>
    /\ UNCHANGED <<store, response, calls>>

\* graph.add_edge("ask_salary", "advice")
CoreAdvice ==
    /\ GetStep(core) = "ask_salary"
    /\ \E salary \in CoreSalaries, llm \in Completions :
         \E r \in {give_advice(SetItem(core, "salary", salary), llm)} :
             core' = r.state /\ prompts' = r.prompts
    /\ UNCHANGED <<store, response, calls>>

\* graph.add_edge("advice", "followup"); graph.add_edge("followup", "followup")
CoreFollowup ==
    /\ GetStep(core) \in {"followup", "conversation_ended"}
    /\ calls < MaxCoreFollowups
    /\ \E question \in CoreQuestions, llm \in Completions :
         \E r \in {handle_followup(SetItem(core, "followup_question", question), llm)} :
             core' = r.state /\ prompts' = r.prompts
    /\ calls' = calls + 1
    /\ UNCHANGED <<store, response>>

CoreNext == CoreAskName \/ CoreAskSalary \/ CoreAdvice \/ CoreFollowup

CoreSpec == Init /\ [][CoreNext]_vars

(***************************************************************************)
(* The handler on a store whose states can be damaged from outside: the    *)
(* step of a stored state is overwritten by a value chat does not know,    *)
(* or its key is lost.  chat itself never stores such a state.             *)
(***************************************************************************)
\* the most follow-up answers held by the stored conversations of FaultSpec
MaxFaultFollowups == 0

\* step values that lines 83-167 do not match
UnknownSteps == {"advice", "bogus"}

\* a stored state with its step overwritten, or with no step at all
Damaged(state) ==
    { SetItem(state, "step", step) : step \in UnknownSteps }
        \cup { [state EXCEPT !.keys = @ \ {"step"}, !.step = ""] }

Corrupt ==
    /\ \E id \in DOMAIN store :
          /\ GetStep(store[id]) \in {"ask_name", "ask_salary", "followup"}
          /\ \E damaged \in Damaged(store[id]) : store' = Put(store, id, damaged)
    /\ UNCHANGED <<response, prompts, core, calls>>

FaultChat == ChatWithin(MaxFaultFollowups)

FaultNext == FaultChat \/ Corrupt

FaultSpec == Init /\ [][FaultNext]_vars

(***************************************************************************)
(* Properties                                                              *)
(***************************************************************************)
IsPrefix(s, t) == Len(s) <= Len(t) /\ SubSeq(t, 1, Len(s)) = s

\* questions that hold a termination phrase, one for each of the twelve
EndingQuestions ==
    { <<"t", "h", "a", "n", "k", "s", " ", "a", " ", "l", "o", "t", "!">>,
      <<"T", "h", "a", "n", "k", " ", "Y", "o", "u">>,
      <<"o", "k", " ", "B", "Y", "E">>,
      <<"G", "o", "o", "d", "b", "y", "e", ".">>,
      <<"T", "H", "A", "T", "'", "S", " ", "A", "L", "L">>,
      <<"N", "o", " ", "m", "o", "r", "e", " ", "q", "u", "e", "s", "t", "i", "o", "n", "s">>,
      <<"t", "h", "a", "t", "'", "s", " ", "E", "n", "o", "u", "g", "h", " ", "n", "o", "w">>,
      <<"I", " ", "a", "m", " ", "D", "O", "N", "E">>,
      <<"F", "i", "n", "i", "s", "h", "e", "d", "?">>,
      <<"H", "o", "w", " ", "t", "o", " ", "s", "p", "E", "N", "d", " ", "l", "e", "s", "s", "?">>,
      <<"e", "X", "i", "t">>,
      <<"a", "c", "Q", "U", "I", "T", "t", "a", "l">> }

\* questions that hold none
OtherQuestions ==
    { <<"w", "h", "a", "t", " ", "a", "b", "o", "u", "t", " ", "t", "a", "x", " ", "s", "a", "v", "i", "n", "g", "?">>,
      <<>>,
      <<"H", "o", "w", " ", "m", "u", "c", "h", " ", "t", "o", " ", "s", "a", "v", "e", "?">>,
      <<"B", "y", " ", "e", "-", "m", "a", "i", "l", "?">>,
      <<"E", "N", " ", "D">>,
      <<"t", "h", "a", "n", " ", "k", "s">> }

\* the conversations in the store whose step is step
StoredAt(step) == { id \in DOMAIN store : GetStep(store[id]) = step }

\* a request for conversation id that carries only a follow-up question
FollowupRequest(id, question) ==
    [ conversation_id   |-> <<id>>,
      name              |-> None,
      salary            |-> None,
      followup_question |-> <<question>> ]

\* a request for conversation id that carries only a salary
SalaryRequestFor(id, salary) ==
    [ conversation_id   |-> <<id>>,
      name              |-> None,
      salary            |-> <<salary>>,
      followup_question |-> None ]

Failure == [raises |-> TRUE, content |-> <<>>]

Success == [raises |-> FALSE, content |-> ReplyOk]

\* C1: while a conversation stays in the store, the messages it held before
\* a request are a prefix of the messages it holds after: no request removes
\* or rewrites an entry, so the list never gets shorter.
C1_MessagesAppendOnly ==
    [][\A id \in DOMAIN store \cap DOMAIN store' :
          IsPrefix(GetMessages(store[id]), GetMessages(store'[id]))]_vars

\* a conversation that went through all four transitions and is still stored
C1_Witness ==
    \E id \in DOMAIN store : Len(GetMessages(store[id])) >= 4 /\ Answered(store[id]) >= 1

\* C2: once name (resp. salary) is set in a stored conversation, no later
\* request changes it, whatever name or salary that request carries.
C2_NameAndSalarySetOnce ==
    [][\A id \in DOMAIN store \cap DOMAIN store' :
          /\ "name" \in store[id].keys =>
                 "name" \in store'[id].keys /\ store'[id].name = store[id].name
          /\ "salary" \in store[id].keys =>
                 "salary" \in store'[id].keys /\ store'[id].salary = store[id].salary]_vars

\* two follow-ups answered in a conversation whose name and salary differ
\* from the ones the mixed request (Asha, 50000) carries
C2_Witness ==
    \E id \in DOMAIN store :
        /\ {"name", "salary"} \subseteq store[id].keys
        /\ store[id].name # Asha
        /\ store[id].salary = NaN
        /\ Answered(store[id]) >= 2

\* C3: no stored state and no response has step "advice", and a state that
\* give_advice has returned (it holds initial_advice) is at "followup",
\* whether the completion call failed or succeeded.
C3_AdviceIsTransient ==
    /\ response.step # "advice"
    /\ \A id \in DOMAIN store :
          /\ GetStep(store[id]) # "advice"
          /\ "initial_advice" \in store[id].keys => GetStep(store[id]) = "followup"
    /\ \A id \in StoredAt("ask_salary") : \A llm \in {Failure, Success} :
          \A salary \in {Num(50000), Num(1), NaN} :
              LET out == chat(store, SalaryRequestFor(id, salary), llm, "")
              IN  /\ out.response.step = "followup"
                  /\ GetStep(out.store[id]) = "followup"

\* advice given after a failed call in one conversation and after a
\* successful call in another
C3_Witness ==
    \E a, b \in DOMAIN store :
        /\ GetStep(store[a]) = "followup" /\ store[a].initial_advice = FallbackAdvice
        /\ GetStep(store[b]) = "followup" /\ store[b].initial_advice = Strip(ReplyOk)

\* C4: handle_followup on a state at "followup" with a question holding a
\* termination phrase (any case, anywhere in the text) sets step to
\* "conversation_ended", appends exactly one message, the farewell naming
\* the user, appends nothing to the history and sends no prompt.
C4_EndingQuestionEnds ==
    \A id \in StoredAt("followup") : \A question \in EndingQuestions :
        \A llm \in {Failure, Success} :
            LET before == store[id]
                r == handle_followup(SetItem(before, "followup_question", question), llm)
                added == r.state.messages[Len(r.state.messages)]
            IN  /\ ~r.raised
                /\ r.state.step = "conversation_ended"
                /\ Len(r.state.messages) = Len(before.messages) + 1
                /\ IsPrefix(before.messages, r.state.messages)
                /\ added.role = "assistant"
                /\ added.content =
                       << "You're welcome, " >> \o before.name
                           \o << "! I'm glad I could help with your financial planning. Best of luck with your financial goals!" >>
                /\ r.state.conversation_history = before.conversation_history
                /\ r.prompts = <<>>

\* a request has just ended one conversation with its question while
\* another conversation is at "followup"
C4_Witness ==
    /\ response.conversation_ended
    /\ response.status = 200
    /\ StoredAt("followup") # {}

\* C5: a follow-up request whose question holds no termination phrase
\* leaves step at "followup", appends the question and then the answer to
\* the history and the answer alone to messages, for the first follow-up
\* as for the later ones.
C5_OtherQuestionAnswered ==
    \A id \in StoredAt("followup") : \A question \in OtherQuestions :
        \A llm \in {Failure, Success} :
            \A out \in {chat(store, FollowupRequest(id, question), llm, "")} :
            LET before == store[id]
                after == out.store[id]
                answer == IF llm.raises THEN FallbackAdvice ELSE <<"o", "k">>
            IN  /\ out.response.status = 200
                /\ id \in DOMAIN out.store
                /\ after.step = "followup"
                /\ out.response.step = "followup"
                /\ after.conversation_history =
                       before.conversation_history
                           \o << Msg("user", << "Follow-up question: " >> \o question),
                                 Msg("assistant", << "Follow-up response: " >> \o answer) >>
                /\ after.messages = Append(before.messages, Msg("assistant", answer))
                /\ out.response.messages = after.messages

\* a conversation with two follow-ups answered
C5_Witness == \E id \in StoredAt("followup") : Answered(store[id]) >= 2

\* the request that makes give_advice or handle_followup call the service
\* in conversation id
CallingRequests(id) ==
    IF GetStep(store[id]) = "ask_salary"
    THEN { SalaryRequestFor(id, Num(50000)), SalaryRequestFor(id, NaN) }
    ELSE { FollowupRequest(id, question) : question \in OtherQuestions }

\* C6: when the completion call fails, the request ends as it does when
\* the call succeeds: a 200 response, the same step, the same number of
\* entries appended to messages and to the history, the fixed non-empty
\* fallback text as the advice or answer, and one call of the service.
C6_FailureAbsorbed ==
    \A id \in StoredAt("ask_salary") \cup StoredAt("followup") :
        \A user_input \in CallingRequests(id) :
            \A failed \in {chat(store, user_input, Failure, "")} :
            \A worked \in {chat(store, user_input, Success, "")} :
            LET after == failed.store[id]
            IN  /\ failed.response.status = 200
                /\ worked.response.status = 200
                /\ after.step = worked.store[id].step
                /\ Len(after.messages) = Len(worked.store[id].messages)
                /\ Len(after.messages) = Len(store[id].messages) + 1
                /\ Len(after.conversation_history) =
                       Len(worked.store[id].conversation_history)
                /\ after.messages[Len(after.messages)].content = FallbackAdvice
                /\ Len(FallbackAdvice) > 0 /\ FallbackAdvice[1] # ""
                /\ GetStep(store[id]) = "ask_salary" => after.initial_advice = FallbackAdvice
                /\ failed.response.messages = after.messages
                /\ Len(failed.prompts) = 1
                /\ failed.prompts = worked.prompts

\* the advice and then a follow-up answer were both the fallback
C6_Witness ==
    \E id \in StoredAt("followup") :
        /\ store[id].initial_advice = FallbackAdvice
        /\ Answered(store[id]) >= 1
        /\ store[id].messages[Len(store[id].messages)].content = FallbackAdvice
        /\ Len(prompts) = 1

\* C7: a state object whose step is "conversation_ended" is not changed by
\* any further call: its step stays, nothing is appended.
C7_EndedIsTerminal ==
    [][GetStep(core) = "conversation_ended" => core' = core]_vars

\* C8: a response that reports the end of a conversation carries step
\* "conversation_ended" and the whole transcript, the farewell last, and
\* the conversation it names is no longer in the store.
C8_EndedIsDiscarded ==
    response.conversation_ended =>
        /\ response.status = 200
        /\ response.step = "conversation_ended"
        /\ response.conversation_id \notin DOMAIN store
        /\ Len(response.messages) >= 4
        /\ response.messages[1].content = Greeting
        /\ response.messages[Len(response.messages)].content[1] = "You're welcome, "

\* a conversation ended after an answered follow-up
C8_Witness == response.conversation_ended /\ Len(response.messages) >= 5

\* the state ask_name leaves in an empty dict
FreshState ==
    [ keys                 |-> {"step", "messages"},
      step                 |-> "ask_name",
      name                 |-> <<>>,
      salary               |-> Num(0),
      messages             |-> << [role |-> "assistant", content |-> << "Hi! What is your name?" >>] >>,
      conversation_history |-> <<>>,
      initial_advice       |-> <<>>,
      followup_question    |-> <<>> ]

\* the conversation a request is for
EffectiveId(user_input, uuid) ==
    IF NeedsUuid(user_input) THEN uuid ELSE user_input.conversation_id[1]

\* C9: a request for a conversation that is not in the store, whatever
\* name, salary or question it carries, stores the fresh state under that
\* identifier (step "ask_name", the greeting alone, nothing else), changes
\* no other conversation, answers with the greeting and calls no service.
C9_AbsentIdStartsFresh ==
    \A user_input \in UserInputs : \A uuid \in UuidChoices(user_input) :
        LET id == EffectiveId(user_input, uuid)
        IN  id \notin DOMAIN store =>
                \A llm \in {Failure, Success} :
                    LET out == chat(store, user_input, llm, uuid)
                    IN  /\ out.store = Put(store, id, FreshState)
                        /\ out.response = Reply(FreshState.messages, "ask_name", id, FALSE)
                        /\ out.prompts = <<>>

\* a conversation was just started while another one is at "followup"
C9_Witness ==
    \E id \in DOMAIN store :
        /\ store[id] = FreshState
        /\ response = Reply(FreshState.messages, "ask_name", id, FALSE)
        /\ StoredAt("followup") # {}

\* C10: every stored state at "ask_salary" or later holds a non-empty name.
C10_NameNonEmpty ==
    \A id \in DOMAIN store :
        GetStep(store[id]) # "ask_name" =>
            "name" \in store[id].keys /\ store[id].name # <<>>

\* C11: every salary in a stored state is a number greater than 0: a
\* request in step "ask_salary" whose salary is not positive is rejected
\* before give_advice is invoked.
C11_StoredSalaryPositive ==
    \A id \in DOMAIN store :
        "salary" \in store[id].keys =>
            ~store[id].salary.nan /\ store[id].salary.val > 0

InvalidStateError ==
    HttpError(400, "Invalid conversation state. Please start a new conversation.")

\* the requests of the model that name conversation id
RequestsFor(id) == { u \in UserInputs : u.conversation_id = <<id>> }

\* C12: a request for a stored conversation whose step is none of the
\* values the handler knows removes that conversation from the store,
\* leaves the others alone, answers with the error that asks for a new
\* conversation, and calls neither a node nor the service.
C12_UnknownStepDiscarded ==
    \A id \in DOMAIN store :
        GetStep(store[id]) \notin {"ask_name", "ask_salary", "followup", "conversation_ended"} =>
            \A user_input \in RequestsFor(id) : \A llm \in {Failure, Success} :
                LET out == chat(store, user_input, llm, "")
                IN  /\ out.store = [k \in DOMAIN store \ {id} |-> store[k]]
                    /\ out.response = InvalidStateError
                    /\ out.prompts = <<>>

\* a damaged conversation has just been discarded by a request
C12_Witness ==
    /\ response = InvalidStateError
    /\ \A id \in DOMAIN store : GetStep(store[id]) \in {"ask_name", "ask_salary", "followup"}

\* the fields class State declares
StateFields ==
    {"name", "salary", "step", "messages", "conversation_history", "initial_advice"}

\* a field-for-field copy of a state: the declared fields the state holds,
\* with their values; what else the dict holds is not copied
CopyState(state) ==
    [ keys                 |-> state.keys \cap StateFields,
      step                 |-> state.step,
      name                 |-> state.name,
      salary               |-> state.salary,
      messages             |-> state.messages,
      conversation_history |-> state.conversation_history,
      initial_advice       |-> state.initial_advice,
      followup_question    |-> <<>> ]

\* the field of a request that the step of a state reads
RequiredField(state) ==
    CASE GetStep(state) = "ask_name" -> "name"
      [] GetStep(state) = "ask_salary" -> "salary"
      [] OTHER -> "followup_question"

\* the requests of the model for conversation id that carry the input its
\* step expects
ExpectedRequests(id) ==
    { u \in RequestsFor(id) : ~IsNone(u[RequiredField(store[id])]) }

\* C13: with the stored state of a conversation replaced by a
\* field-for-field copy, the next expected request gives the same response,
\* sends the same prompts and leaves the same step, messages, history,
\* name, salary and initial advice as it does on the state itself.
C13_CopyResumesAlike ==
    \A id \in DOMAIN store :
        \A user_input \in ExpectedRequests(id) : \A llm \in {Failure, Success} :
            \A direct \in {chat(store, user_input, llm, "")} :
            \A copied \in {chat(Put(store, id, CopyState(store[id])), user_input, llm, "")} :
                /\ copied.response = direct.response
                /\ copied.prompts = direct.prompts
                /\ DOMAIN copied.store = DOMAIN direct.store
                /\ id \in DOMAIN direct.store =>
                       CopyState(copied.store[id]) = CopyState(direct.store[id])

\* a stored conversation that has answered a follow-up, so that its state
\* holds more than its copy does
C13_Witness ==
    \E id \in StoredAt("followup") :
        /\ Answered(store[id]) >= 1
        /\ CopyState(store[id]) # store[id]

\* the store with only the conversations in ids
OnlyConversations(ids) == [k \in DOMAIN store \cap ids |-> store[k]]

\* C14: a request for one conversation leaves every other stored
\* conversation as it is, and does to its own conversation, and answers,
\* what it would if the store held no other conversation: in every step of
\* the handler only the conversation the response names may differ, and in
\* every reachable store every request gives the same outcome as on the
\* store cut down to its own conversation.
C14_ConversationsIndependent ==
    /\ [][\A other \in DOMAIN store \ {response'.conversation_id} :
             other \in DOMAIN store' /\ store'[other] = store[other]]_vars
    /\ [](\A id \in ConvIds :
             \A user_input \in RequestsFor(id) : \A llm \in {Failure, Success} :
                 \A out \in {chat(store, user_input, llm, "")} :
                 \A alone \in {chat(OnlyConversations({id}), user_input, llm, "")} :
                     /\ DOMAIN out.store \ {id} = DOMAIN store \ {id}
                     /\ \A other \in DOMAIN store \ {id} : out.store[other] = store[other]
                     /\ out.response = alone.response
                     /\ out.prompts = alone.prompts
                     /\ id \in DOMAIN out.store <=> id \in DOMAIN alone.store
                     /\ id \in DOMAIN out.store => out.store[id] = alone.store[id])

\* two stored conversations in different steps, one with an answered
\* follow-up, reached by interleaved requests
C14_Witness ==
    \E a, b \in DOMAIN store :
        /\ Answered(store[a]) >= 1
        /\ GetStep(store[b]) = "ask_salary"
        /\ response.conversation_id = b

\* C15: no stored state holds a followup_question: the question of a
\* follow-up request is gone from the state once the request has returned.
C15_QuestionNotRetained ==
    \A id \in DOMAIN store : "followup_question" \notin store[id].keys

\* the line the context holds for one history entry
Bullet(entry) == << "- " >> \o entry.content

\* the lines for the last min(3, n) entries of history, oldest first
LastThreeLines(history) ==
    LET n == Len(history)
    IN  IF n = 0 THEN <<>>
        ELSE IF n = 1 THEN Bullet(history[1])
        ELSE IF n = 2 THEN Bullet(history[1]) \o << "\n" >> \o Bullet(history[2])
        ELSE Bullet(history[n - 2]) \o << "\n" >> \o Bullet(history[n - 1])
                 \o << "\n" >> \o Bullet(history[n])

\* the history as it stood before the follow-up that has just been answered
HistoryBefore(state) ==
    SubSeq(state.conversation_history, 1, Len(state.conversation_history) - 2)

\* a follow-up has just been answered on the state object: the service was
\* called (an ending question calls nothing)
FollowupJustAnswered == calls >= 1 /\ prompts # <<>>

\* C16: the one context sent for an answered follow-up is the template
\* around the lines of the last min(3, n) entries of the history as it stood
\* before the request, oldest first, and around the question; no older entry
\* and neither of the two entries appended for this question and its answer
\* is in it.
C16_ContextHoldsLastThree ==
    FollowupJustAnswered =>
        /\ Len(prompts) = 1
        /\ Len(core.conversation_history) >= 3
        /\ prompts[1] = ContextWith(core, LastThreeLines(HistoryBefore(core)),
                                    core.followup_question)
        /\ core.conversation_history[Len(core.conversation_history) - 1] =
               [role |-> "user",
                content |-> << "Follow-up question: " >> \o core.followup_question]
        /\ core.conversation_history[Len(core.conversation_history)].role = "assistant"

\* the third follow-up in a row has been answered: the history held five
\* entries before it, two of them older than the last three
C16_Witness ==
    /\ FollowupJustAnswered
    /\ calls = 3
    /\ Len(HistoryBefore(core)) = 5
    /\ HistoryBefore(core)[1] # HistoryBefore(core)[4]

\* the moves of the step of a conversation that stays in the store
ForwardMoves ==
    { <<"ask_name", "ask_name">>, <<"ask_name", "ask_salary">>,
      <<"ask_salary", "ask_salary">>, <<"ask_salary", "followup">>,
      <<"followup", "followup">> }

\* C17: a request moves the step of a stored conversation along
\* ask_name -> ask_salary -> followup or leaves it; the move to ask_salary
\* is the one that stores the name, the move to followup the one that stores
\* the salary of a conversation that holds a name; a conversation leaves the
\* store only from followup, with the response that reports the end, and
\* that response is given to no conversation at another step; a
\* conversation enters the store at ask_name.
C17_StepMovesForward ==
    [][/\ \A id \in DOMAIN store \cap DOMAIN store' :
             LET before == store[id]
                 after == store'[id]
             IN  /\ <<GetStep(before), GetStep(after)>> \in ForwardMoves
                 /\ (GetStep(before) = "ask_name" /\ GetStep(after) = "ask_salary") =>
                        "name" \notin before.keys /\ "name" \in after.keys
                 /\ (GetStep(before) = "ask_salary" /\ GetStep(after) = "followup") =>
                        /\ "name" \in before.keys
                        /\ "salary" \notin before.keys
                        /\ "salary" \in after.keys
       /\ \A id \in DOMAIN store \ DOMAIN store' :
             /\ GetStep(store[id]) = "followup"
             /\ response'.conversation_ended
             /\ response'.step = "conversation_ended"
             /\ response'.conversation_id = id
       /\ (response'.conversation_ended \/ response'.step = "conversation_ended") =>
             /\ response'.conversation_id \in StoredAt("followup")
             /\ response'.conversation_id \notin DOMAIN store'
       /\ \A id \in DOMAIN store' \ DOMAIN store : GetStep(store'[id]) = "ask_name"
      ]_vars

\* one conversation has gone all the way and has been discarded by the last
\* request, while another is still at its first step
C17_Witness ==
    /\ response.conversation_ended
    /\ response.conversation_id \notin DOMAIN store
    /\ Len(response.messages) >= 4
    /\ StoredAt("ask_name") # {}

\* the request bodies for conversation id that lack the input its step
\* requires, with every choice of the other two fields
LackingRequests(id) ==
    { u \in [ name              : NameInputs,
              salary            : SalaryInputs,
              conversation_id   : {<<id>>},
              followup_question : QuestionInputs ] :
        IsNone(u[RequiredField(store[id])]) }

\* C18: a request for a stored conversation that lacks the input of the
\* current step, whatever else it carries, leaves the whole store as it is,
\* calls neither a node nor the service, and answers with the messages and
\* the step the conversation holds.
C18_MissingInputChangesNothing ==
    \A id \in DOMAIN store :
        \A user_input \in LackingRequests(id) : \A llm \in {Failure, Success} :
            \A out \in {chat(store, user_input, llm, "")} :
                /\ out.store = store
                /\ out.prompts = <<>>
                /\ out.response =
                       Reply(GetMessages(store[id]), GetStep(store[id]), id, FALSE)

\* the last request was for a conversation at followup that holds an answer
\* and sent no prompt: it carried no follow-up question
C18_Witness ==
    \E id \in StoredAt("followup") :
        /\ Answered(store[id]) >= 1
        /\ response = Reply(GetMessages(store[id]), "followup", id, FALSE)
        /\ prompts = <<>>

\* the steps the handler leaves in the store
StoredSteps == {"ask_name", "ask_salary", "followup"}

\* C19: every stored state has step ask_name, ask_salary or followup, so no
\* request for a stored conversation is answered by the handler's
\* conversation_ended branch or by its invalid-state branch, and no
\* response is the invalid-state error.
C19_StoredStepsKnown ==
    /\ \A id \in DOMAIN store : GetStep(store[id]) \in StoredSteps
    /\ response # InvalidStateError
    /\ \A id \in DOMAIN store :
           \A user_input \in RequestsFor(id) :
               \A out \in {chat(store, user_input, Success, "")} :
                   /\ out # StepEnded(store, id, store[id])
                   /\ out # StepInvalid(store, id)

\* a conversation has just ended, after give_advice and handle_followup have
\* written "advice" and "conversation_ended" into its state, and the store
\* holds another one that waits for its salary
C19_Witness ==
    /\ response.conversation_ended
    /\ response.status = 200
    /\ response.conversation_id \notin DOMAIN store
    /\ StoredAt("ask_salary") # {}

\* the follow-up answers shown in the messages of a state at followup
AnswersShown(state) == Len(GetMessages(state)) - 3

\* the fields a state holds at each step, besides followup_question
FieldsAt(step) ==
    CASE step = "ask_name" -> {"step", "messages"}
      [] step = "ask_salary" -> {"step", "messages", "name"}
      [] OTHER -> StateFields

\* C20: a stored state holds a name exactly when its step is not ask_name,
\* and a salary and an initial advice exactly when its step is followup; at
\* followup with k follow-up answers in messages, messages has 3 + k
\* entries, the history 1 + 2k (the advice summary, then each question
\* followed by its answer, the answer being the message shown), and no
\* response reports a failed transition.
C20_DataMatchesStep ==
    /\ response.status # 500
    /\ \A id \in DOMAIN store :
           LET state == store[id]
               step == GetStep(state)
               k == AnswersShown(state)
           IN  /\ "name" \in state.keys <=> step # "ask_name"
               /\ "salary" \in state.keys <=> step = "followup"
               /\ "initial_advice" \in state.keys <=> step = "followup"
               /\ state.keys \ {"followup_question"} = FieldsAt(step)
               /\ step = "ask_name" => Len(state.messages) = 1
               /\ step = "ask_salary" => Len(state.messages) = 2
               /\ step = "followup" =>
                      /\ k >= 0
                      /\ Len(state.messages) = 3 + k
                      /\ Len(state.conversation_history) = 1 + 2 * k
                      /\ state.messages[3].content = state.initial_advice
                      /\ state.conversation_history[1].role = "system"
                      /\ \A j \in 1..k :
                             /\ state.conversation_history[2 * j].role = "user"
                             /\ state.conversation_history[2 * j + 1] =
                                    Msg("assistant",
                                        << "Follow-up response: " >>
                                            \o state.messages[3 + j].content)

\* a salary has just been refused for a conversation that waits for one,
\* while another conversation holds two follow-up answers
C20_Witness ==
    /\ response.status = 400
    /\ StoredAt("ask_salary") # {}
    /\ \E id \in StoredAt("followup") :
           Len(store[id].messages) = 5 /\ Len(store[id].conversation_history) = 5

====
